---- MODULE Spec2Model ----
(***************************************************************************)
(* The streaming reconciliation core of the marketplace deal finder: the  *)
(* Home component (app/page.tsx) reads a server-sent event stream chunk by *)
(* chunk, reassembles "data: " lines, dispatches each payload to a handler *)
(* and folds it into the session state; SearchLoadingView derives the      *)
(* pending rows and the combined display list from that state.             *)
(*                                                                         *)
(* Text is a sequence of characters, a chunk a sequence of bytes.  Every   *)
(* character used here is one byte, written as itself, except U+00E9,      *)
(* written "E9", whose UTF-8 form is the two bytes "C3" "A9"; U+FFFD, the  *)
(* decoder's replacement character, is written "FFFD".  An optional value  *)
(* (undefined / null in the source) is a sequence of length 0 or 1.        *)
(*                                                                         *)
(* Where the code assigns a local once and reads it many times, the value  *)
(* is bound by membership in a singleton set (x \in {e}), which computes   *)
(* it once; CHOOSE r \in {F(x) : x \in {e}} : TRUE is F applied to e.       *)
(***************************************************************************)
EXTENDS Integers, Sequences, FiniteSets, TLC

None == <<>>
Some(v) == <<v>>
IsSome(o) == o # <<>>
OrElse(o, v) == IF IsSome(o) THEN o[1] ELSE v

Last(s) == s[Len(s)]
Front(s) == SubSeq(s, 1, Len(s) - 1)

RECURSIVE Flatten(_)
Flatten(ss) == IF ss = <<>> THEN <<>> ELSE Head(ss) \o Flatten(Tail(ss))

(***************************************************************************)
(* Bounds of the model.                                                    *)
(***************************************************************************)
MaxLines == 2    \* lines per stream when the stream is cut at any byte
MaxEvents == 3   \* events per stream when the stream is cut between lines
MaxSubmits == 2  \* clicks on the submit button, hence search runs
MaxCancels == 2  \* clicks on the cancel button
EventGapMs == 150  \* milliseconds from one event of the stream to the next

(***************************************************************************)
(* TextDecoder.decode(value, { stream }): UTF-8 decoding that keeps an     *)
(* incomplete trailing sequence for the next call when stream is true and  *)
(* replaces it by U+FFFD when stream is false.                             *)
(***************************************************************************)
RECURSIVE Utf8Decode(_, _)
Utf8Decode(bytes, stream) ==
  IF bytes = <<>> THEN [text |-> <<>>, pending |-> <<>>]
  ELSE IF Head(bytes) = "C3" THEN
    IF Len(bytes) = 1
    THEN IF stream THEN [text |-> <<>>, pending |-> bytes]
                   ELSE [text |-> <<"FFFD">>, pending |-> <<>>]
    ELSE IF bytes[2] = "A9"
    THEN LET r == Utf8Decode(SubSeq(bytes, 3, Len(bytes)), stream)
         IN  [r EXCEPT !.text = <<"E9">> \o @]
    ELSE LET r == Utf8Decode(Tail(bytes), stream)
         IN  [r EXCEPT !.text = <<"FFFD">> \o @]
  ELSE IF Head(bytes) = "A9" THEN
    LET r == Utf8Decode(Tail(bytes), stream) IN [r EXCEPT !.text = <<"FFFD">> \o @]
  ELSE
    LET r == Utf8Decode(Tail(bytes), stream) IN [r EXCEPT !.text = <<Head(bytes)>> \o @]

\* decoder.decode(value, { stream: !done }) with the bytes the decoder holds
decode(pending, value, stream) == Utf8Decode(pending \o value, stream)

\* the UTF-8 bytes of a text (what the server writes)
RECURSIVE Utf8Encode(_)
Utf8Encode(text) ==
  IF text = <<>> THEN <<>>
  ELSE (IF Head(text) = "E9" THEN <<"C3", "A9">> ELSE <<Head(text)>>)
       \o Utf8Encode(Tail(text))

(***************************************************************************)
(* String helpers of the read loop.                                        *)
(***************************************************************************)
NL == "\n"
DataPrefix == <<"d", "a", "t", "a", ":", " ">>

includesNewline(s) == \E i \in 1..Len(s) : s[i] = NL

\* buffer.split("\n")
RECURSIVE split(_)
split(s) ==
  IF ~includesNewline(s) THEN <<s>>
  ELSE LET i == CHOOSE j \in 1..Len(s) :
                  s[j] = NL /\ \A k \in 1..(j - 1) : s[k] # NL
           rest == {split(t) : t \in {SubSeq(s, i + 1, Len(s))}}
       IN  <<SubSeq(s, 1, i - 1)>> \o (CHOOSE r \in rest : TRUE)

\* line.startsWith("data: ")
startsWithData(line) ==
  Len(line) >= Len(DataPrefix) /\ SubSeq(line, 1, Len(DataPrefix)) = DataPrefix

\* line.slice(6)
slice6(line) == SubSeq(line, Len(DataPrefix) + 1, Len(line))

(***************************************************************************)
(* Listings as they travel in payloads.  Listing and DebugFacebookListing  *)
(* are both plain JSON objects; the fields the core reads are kept.        *)
(***************************************************************************)
MkListing(url, title) ==
  [url |-> url, title |-> title, dealScore |-> None, noCompReason |-> None,
   filterReason |-> None, ebaySearchQuery |-> None]

ListingA  == [MkListing("a", "A") EXCEPT !.dealScore = Some(30)]
ListingA2 == [MkListing("a", "A-final") EXCEPT !.dealScore = Some(35)]
ListingB  == [MkListing("b", "B") EXCEPT !.dealScore = Some(10)]
ListingAccent == [MkListing("a", "caf-E9") EXCEPT !.dealScore = Some(30)]
FbA == MkListing("a", "A")
FbB == MkListing("b", "B")
FilteredA == [MkListing("a", "A") EXCEPT !.filterReason = Some("suspicious price")]
FilteredB == [MkListing("b", "B") EXCEPT !.filterReason = Some("suspicious price")]
ListingNoComp == [MkListing("a", "A") EXCEPT !.noCompReason = Some("no comparable sales")]
ListingNoCompB == [MkListing("b", "B") EXCEPT !.noCompReason = Some("no comparable sales")]
ListingNoCompRan ==
  [MkListing("a", "A-ran") EXCEPT !.noCompReason = Some("too few sales"),
                                  !.ebaySearchQuery = Some("query a")]

(***************************************************************************)
(* The object JSON.parse returns: every field dispatchSSEEvent reads,      *)
(* absent fields being None.                                               *)
(***************************************************************************)
Blank ==
  [type |-> "", phase |-> None, scannedCount |-> None, filteredCount |-> None,
   filteredOutListings |-> None, evaluatedCount |-> None, listing |-> None,
   fbListingId |-> None, listingIndex |-> None, fbTitle |-> None,
   totalListings |-> None, listings |-> None, threshold |-> None,
   message |-> None, ebayQuery |-> None, failed |-> None, recon |-> None]

EvPhase(p) == [Blank EXCEPT !.type = "phase", !.phase = Some(p)]
EvProgress(n) == [Blank EXCEPT !.type = "progress", !.scannedCount = Some(n)]
EvListingResult(l, n) ==
  [Blank EXCEPT !.type = "listing_result", !.listing = Some(l),
                !.evaluatedCount = Some(n)]
EvFiltered(l) == [Blank EXCEPT !.type = "filtered_facebook_listing", !.listing = Some(l)]
EvDebugFacebook(ls) == [Blank EXCEPT !.type = "debug_facebook", !.listings = Some(ls)]
EvDebugFacebookListing(l) ==
  [Blank EXCEPT !.type = "debug_facebook_listing", !.listing = Some(l)]
EvDoneOnly(ls) == [Blank EXCEPT !.type = "done", !.listings = Some(ls)]
EvDoneFull(ls, fs, sc, fc, ec) ==
  [Blank EXCEPT !.type = "done", !.listings = Some(ls),
                !.filteredOutListings = Some(fs), !.scannedCount = Some(sc),
                !.filteredCount = Some(fc), !.evaluatedCount = Some(ec)]
EvAuthError == [Blank EXCEPT !.type = "auth_error"]
EvLocationError == [Blank EXCEPT !.type = "location_error", !.message = Some("Unknown zip")]
EvUnknown == [Blank EXCEPT !.type = "heartbeat"]
EvCurrentItem(i, t, n) ==
  [Blank EXCEPT !.type = "current_item", !.listingIndex = Some(i),
                !.fbTitle = Some(t), !.totalListings = Some(n)]
EvFilteredCount(n) == [Blank EXCEPT !.type = "filtered", !.filteredCount = Some(n)]
EvListingProcessed(n) ==
  [Blank EXCEPT !.type = "listing_processed", !.evaluatedCount = Some(n)]

\* the telemetry of one listing: its id, index and title travel with every
\* event of the timeline
EvQuery(type, id, i, t) ==
  [Blank EXCEPT !.type = type, !.fbListingId = Some(id),
                !.listingIndex = Some(i), !.fbTitle = Some(t)]
EvQueryStart(id, i, t) == EvQuery("debug_ebay_query_start", id, i, t)
EvQueryGenerated(id, i, t, q) ==
  [EvQuery("debug_ebay_query_generated", id, i, t) EXCEPT !.ebayQuery = Some(q)]
EvQueryFinished(id, i, f) ==
  [EvQuery("debug_ebay_query_finished", id, i, "") EXCEPT
     !.fbTitle = None, !.failed = Some(f)]
EvProductRecon(id, i, name) ==
  [EvQuery("debug_product_recon", id, i, "") EXCEPT
     !.fbTitle = None, !.recon = Some([canonical_name |-> Some(name)])]
EvNoCompResult(id, l, n) ==
  [EvListingResult(l, n) EXCEPT !.fbListingId = Some(id)]

\* an event of a known kind that lacks a field its kind requires
EvLacking(e, field) == [e EXCEPT ![field] = None]

(***************************************************************************)
(* The wire: the JSON objects the producer sends, each written here as a   *)
(* brace pair around a short body.  body "dE9" is a done payload whose     *)
(* listing title holds the two-byte character.                             *)
(***************************************************************************)
Wire ==
  { [body |-> <<"s">>, data |-> EvPhase("scraping")],
    [body |-> <<"v">>, data |-> EvPhase("evaluating")],
    [body |-> <<"p">>, data |-> EvProgress(5)],
    [body |-> <<"r">>, data |-> EvListingResult(ListingA, 1)],
    [body |-> <<"R">>, data |-> EvListingResult(ListingB, 2)],
    [body |-> <<"f">>, data |-> EvFiltered(FilteredA)],
    [body |-> <<"F">>, data |-> EvFiltered(FilteredB)],
    [body |-> <<"g">>, data |-> EvDebugFacebook(<<FbA, FbB>>)],
    [body |-> <<"l">>, data |-> EvDebugFacebookListing(FbA)],
    [body |-> <<"L">>, data |-> EvDebugFacebookListing(FbB)],
    [body |-> <<"d">>, data |-> EvDoneOnly(<<ListingA>>)],
    [body |-> <<"D">>, data |-> EvDoneFull(<<ListingA2>>, <<FilteredB>>, 7, 1, 1)],
    [body |-> <<"d", "E9">>, data |-> EvDoneOnly(<<ListingAccent>>)],
    [body |-> <<"a">>, data |-> EvAuthError],
    [body |-> <<"e">>, data |-> EvLocationError],
    [body |-> <<"h">>, data |-> EvUnknown],
    [body |-> <<"i">>, data |-> EvCurrentItem(1, "A", 2)],
    [body |-> <<"K">>, data |-> EvListingProcessed(3)],
    [body |-> <<"q">>, data |-> EvFilteredCount(4)],
    [body |-> <<"x">>, data |-> EvLacking(EvPhase("evaluating"), "phase")],
    [body |-> <<"y">>, data |-> EvLacking(EvProgress(5), "scannedCount")],
    [body |-> <<"w">>, data |-> EvLacking(EvFiltered(FilteredA), "listing")],
    [body |-> <<"c">>, data |-> EvLacking(EvCurrentItem(1, "A", 2), "totalListings")],
    [body |-> <<"z">>, data |-> EvLacking(EvListingResult(ListingA, 1), "evaluatedCount")],
    [body |-> <<"k">>, data |-> EvLacking(EvListingProcessed(3), "evaluatedCount")],
    [body |-> <<"u">>, data |-> EvLacking(EvDoneOnly(<<ListingA>>), "listings")],
    [body |-> <<"n">>, data |-> EvLacking(EvLocationError, "message")],
    [body |-> <<"t">>, data |-> Blank],
    [body |-> <<"1">>, data |-> EvQueryStart("a", 1, "A")],
    [body |-> <<"2">>, data |-> EvQueryGenerated("a", 1, "A", "query a")],
    [body |-> <<"3">>, data |-> EvQueryFinished("a", 1, TRUE)],
    [body |-> <<"4">>, data |-> EvProductRecon("a", 1, "Widget")],
    [body |-> <<"5">>, data |-> EvNoCompResult("a", ListingNoComp, 1)],
    [body |-> <<"6">>, data |-> EvQueryGenerated("b", 2, "B", "query b")],
    [body |-> <<"7">>, data |-> EvListingResult(ListingNoCompB, 2)],
    [body |-> <<"8">>, data |-> EvListingResult(ListingNoCompRan, 1)] }

Json(body) == <<"{">> \o body \o <<"}">>

\* whether JSON.parse(text) returns (TRUE) or throws a SyntaxError (FALSE)
JSONValid(text) ==
  /\ Len(text) >= 2
  /\ text[1] = "{"
  /\ text[Len(text)] = "}"
  /\ \A i \in 2..(Len(text) - 1) : text[i] \notin {"{", "}", NL}

\* JSON.parse(text) for a text that parses
JSONParse(text) ==
  LET body == SubSeq(text, 2, Len(text) - 1)
  IN  IF \E w \in Wire : w.body = body
      THEN (CHOOSE w \in Wire : w.body = body).data
      ELSE Blank

(***************************************************************************)
(* State.                                                                  *)
(*   home       the useState / useRef values of Home                       *)
(*   loop       per search run: the position and locals of performSearch / *)
(*              parseSSEStream, and the error that ended it                *)
(*   reader     per search run: the ReadableStreamDefaultReader of its     *)
(*              response body                                              *)
(*   controller per search run: the AbortController of its request         *)
(*   response   the body the server sends: the segments the network        *)
(*              delivers; a read returns one or more whole segments        *)
(*   view       what SearchLoadingView computed at its last render         *)
(*   tasks      asynchronous work outside the runs: submissions that       *)
(*              passed validation and are about to call onSubmit, and      *)
(*              cancelSearch calls waiting on POST /api/search/cancel      *)
(*   hist       history: the payloads handed to dispatchSSEEvent, whether  *)
(*              a terminal event was dispatched, whether an event          *)
(*              dispatched after it (or after a cancel) changed the        *)
(*              session, whether an event of a run that is not the latest  *)
(*              changed the collections or counts, the run during which    *)
(*              each waiting cancelSearch was called, and the requests,    *)
(*              aborts and refusals counted                                *)
(*                                                                         *)
(* A ref of Home (readerRef, abortControllerRef) holds the number of the   *)
(* run whose reader or controller it points to.                            *)
(***************************************************************************)
VARIABLES home, reader, controller, loop, response, view, tasks, hist

vars == <<home, reader, controller, loop, response, view, tasks, hist>>

Runs == 1..MaxSubmits

SessionExpired == "Your Facebook session has expired."
LocationNotFound == "Location not found"

HomeInit ==
  [appState |-> "setup", cookiesChecked |-> FALSE,
   scannedCount |-> 0, filteredCount |-> 0, evaluatedCount |-> 0,
   currentItem |-> None, listings |-> <<>>, error |-> None,
   phase |-> "scraping", debugFacebookListings |-> <<>>,
   filteredOutListings |-> <<>>, debugEbayQueries |-> <<>>,
   debugLogs |-> <<>>,
   debugModeEnabled |-> FALSE, isSearching |-> FALSE,
   isSearchingRef |-> FALSE, abortControllerRef |-> None, readerRef |-> None]

HistInit ==
  [log |-> <<>>, terminalSeen |-> FALSE, changedAfterTerminal |-> FALSE,
   cancelInvoked |-> FALSE, changedAfterCancel |-> FALSE,
   changedByEarlierRun |-> FALSE, cancelRuns |-> <<>>,
   notifications |-> 0, aborts |-> 0, refused |-> 0]

LoopInit == [pc |-> "idle", buffer |-> <<>>, pending |-> <<>>, net |-> <<>>,
             thrown |-> None]
ReaderInit == [cancelled |-> FALSE, locked |-> FALSE]
ControllerInit == [aborted |-> FALSE]

\* the part of the state the code of Home can reach, threaded through a
\* handler: self is the run whose code is running (0 outside any run), thrown
\* the error in flight, queue the promise continuations that are due once the
\* running code returns
Ctx == [home |-> home, reader |-> reader, controller |-> controller,
        loop |-> loop, hist |-> hist, thrown |-> None, self |-> 0,
        queue |-> <<>>]

\* the code of run i starts running
As(c, i) == [c EXCEPT !.self = i, !.thrown = None]

\* the promise run i awaits settles: its continuation is queued
Settle(c, i, with) == [c EXCEPT !.queue = Append(@, [run |-> i, with |-> with])]

\* run i is suspended in reader.read() on a stream that is still readable
Reading(c, i) == c.self # i /\ c.loop[i].pc = "read" /\ c.reader[i].locked

\* the session fields a stream event is about
Session(h) ==
  [appState |-> h.appState, scannedCount |-> h.scannedCount,
   filteredCount |-> h.filteredCount, evaluatedCount |-> h.evaluatedCount,
   listings |-> h.listings, filteredOutListings |-> h.filteredOutListings]

(***************************************************************************)
(* Handlers of Home.                                                       *)
(***************************************************************************)
handlePhaseUpdate(h, phase) == [h EXCEPT !.phase = phase]

handleProgressUpdate(h, scannedCount) == [h EXCEPT !.scannedCount = scannedCount]

handleCurrentItem(h, entry) == [h EXCEPT !.currentItem = Some(entry)]

setEvaluatedCount(h, n) == [h EXCEPT !.evaluatedCount = n]

handleAuthError(h) ==
  [h EXCEPT !.isSearchingRef = FALSE, !.isSearching = FALSE,
            !.scannedCount = 0, !.filteredCount = 0,
            !.filteredOutListings = <<>>, !.evaluatedCount = 0,
            !.phase = "scraping", !.currentItem = None,
            !.error = Some(SessionExpired), !.appState = "setup"]

\* cancelSearch from the point where the producer notification is over:
\* stop the reader, abort the request, return to the form
\* readerRef.current.cancel() and releaseLock(): a read that is pending
\* resolves with done: true
cancelReader(c) ==
  LET i == c.home.readerRef[1]
      w == IF Reading(c, i) THEN Settle(c, i, "done") ELSE c
  IN  [w EXCEPT !.reader[i] = [cancelled |-> @.cancelled \/ @.locked,
                               locked |-> FALSE],
                !.home.readerRef = None]

\* abortControllerRef.current.abort(): a fetch, or a read on a stream that is
\* still readable, that is pending rejects with an AbortError
abortRequest(c) ==
  LET a == c.home.abortControllerRef[1]
      w == IF /\ ~c.controller[a].aborted
              /\ c.self # a
              /\ (c.loop[a].pc = "fetch" \/ Reading(c, a))
           THEN Settle(c, a, "AbortError") ELSE c
  IN  [w EXCEPT !.controller[a] = [aborted |-> TRUE],
                !.hist.aborts = @ + 1,
                !.home.abortControllerRef = None]

cancelSearchLocal(c, clearError) ==
  LET c1 == IF IsSome(c.home.readerRef) THEN cancelReader(c) ELSE c
      c2 == IF IsSome(c1.home.abortControllerRef) THEN abortRequest(c1) ELSE c1
  IN  [c2 EXCEPT !.home =
         [@ EXCEPT !.isSearchingRef = FALSE, !.isSearching = FALSE,
                   !.appState = "form", !.scannedCount = 0,
                   !.filteredCount = 0, !.filteredOutListings = <<>>,
                   !.evaluatedCount = 0, !.phase = "scraping",
                   !.currentItem = None,
                   !.error = IF clearError THEN None ELSE @]]

\* cancelBackend: false, clearError: false, addCancelLog: false: no await is
\* reached, so the whole of cancelSearch runs inside the handler
handleLocationError(c, message) ==
  LET c1 == [c EXCEPT !.home =
               [@ EXCEPT !.isSearchingRef = FALSE, !.isSearching = FALSE,
                         !.scannedCount = 0, !.filteredCount = 0,
                         !.evaluatedCount = 0, !.phase = "scraping",
                         !.currentItem = None, !.appState = "form",
                         !.error = Some(message)]]
  IN  cancelSearchLocal(c1, FALSE)

handleCompletion_keepCount(h, data) ==
  [h EXCEPT !.scannedCount = data.scannedCount,
            !.filteredCount = data.filteredCount,
            !.filteredOutListings = data.filteredOutListings,
            !.listings = data.listings,
            !.appState = "done"]

handleCompletion(h, data) ==
  [h EXCEPT !.scannedCount = data.scannedCount,
            !.filteredCount = data.filteredCount,
            !.filteredOutListings = data.filteredOutListings,
            !.evaluatedCount = data.evaluatedCount,
            !.listings = data.listings,
            !.appState = "done"]

\* a telemetry entry as it is created: the optional fields absent
NewEntry(id, listingIndex, fbTitle, now) ==
  [fbListingId |-> id, listingIndex |-> listingIndex, fbTitle |-> fbTitle,
   ebayQuery |-> None, productRecon |-> None, noCompReason |-> None,
   startedAtMs |-> now, queryGeneratedAtMs |-> None, finishedAtMs |-> None,
   failed |-> None]

\* prev.find((item) => item.fbListingId === id) found an entry
HasEntry(qs, id) == \E k \in DOMAIN qs : qs[k].fbListingId = id

\* item.field ?? Date.now()
OrNow(o, now) == IF IsSome(o) THEN o ELSE Some(now)

\* a handler that appends without looking for an entry of the id
onDebugEbayQueryStart_alwaysAppend(h, entry, now) ==
  [h EXCEPT !.debugEbayQueries =
     Append(@, NewEntry(entry.fbListingId, entry.listingIndex,
                        entry.fbTitle, now))]

\* the start of a listing's timeline: an entry of that id is left as it is
onDebugEbayQueryStart(h, entry, now) ==
  IF HasEntry(h.debugEbayQueries, entry.fbListingId) THEN h
  ELSE [h EXCEPT !.debugEbayQueries =
          Append(@, NewEntry(entry.fbListingId, entry.listingIndex,
                             entry.fbTitle, now))]

\* a handler that stamps queryGeneratedAtMs at every application
onDebugEbayQueryGenerated_overwrite(h, entry, now) ==
  IF ~HasEntry(h.debugEbayQueries, entry.fbListingId)
  THEN [h EXCEPT !.debugEbayQueries =
          Append(@, [NewEntry(entry.fbListingId, entry.listingIndex,
                              entry.fbTitle, now) EXCEPT
                       !.ebayQuery = Some(entry.ebayQuery),
                       !.queryGeneratedAtMs = Some(now),
                       !.failed = Some(FALSE)])]
  ELSE [h EXCEPT !.debugEbayQueries =
          [k \in DOMAIN @ |->
             IF @[k].fbListingId = entry.fbListingId
             THEN [@[k] EXCEPT !.ebayQuery = Some(entry.ebayQuery),
                               !.queryGeneratedAtMs = Some(now),
                               !.failed = Some(FALSE)]
             ELSE @[k]]]

\* the query was generated: create the entry, or add the query to it and
\* stamp queryGeneratedAtMs unless it is stamped already
onDebugEbayQueryGenerated(h, entry, now) ==
  IF ~HasEntry(h.debugEbayQueries, entry.fbListingId)
  THEN [h EXCEPT !.debugEbayQueries =
          Append(@, [NewEntry(entry.fbListingId, entry.listingIndex,
                              entry.fbTitle, now) EXCEPT
                       !.ebayQuery = Some(entry.ebayQuery),
                       !.queryGeneratedAtMs = Some(now),
                       !.failed = Some(FALSE)])]
  ELSE [h EXCEPT !.debugEbayQueries =
          [k \in DOMAIN @ |->
             IF @[k].fbListingId = entry.fbListingId
             THEN [@[k] EXCEPT !.ebayQuery = Some(entry.ebayQuery),
                               !.queryGeneratedAtMs = OrNow(@, now),
                               !.failed = Some(FALSE)]
             ELSE @[k]]]

\* the query finished: a map over the entries, which adds none
onDebugEbayQueryFinished(h, entry, now) ==
  [h EXCEPT !.debugEbayQueries =
     [k \in DOMAIN @ |->
        IF @[k].fbListingId = entry.fbListingId
        THEN [@[k] EXCEPT !.finishedAtMs = OrNow(@, now),
                          !.failed = Some(OrElse(entry.failed, FALSE))]
        ELSE @[k]]]

\* the product recon: create the entry with an empty title, or add the recon
onDebugProductRecon(h, entry, now) ==
  IF ~HasEntry(h.debugEbayQueries, entry.fbListingId)
  THEN [h EXCEPT !.debugEbayQueries =
          Append(@, [NewEntry(entry.fbListingId, entry.listingIndex, "", now) EXCEPT
                       !.productRecon = Some(entry.recon),
                       !.failed = Some(FALSE)])]
  ELSE [h EXCEPT !.debugEbayQueries =
          [k \in DOMAIN @ |->
             IF @[k].fbListingId = entry.fbListingId
             THEN [@[k] EXCEPT !.productRecon = Some(entry.recon)]
             ELSE @[k]]]

\* an evaluated listing; one without comparables closes its telemetry entry
onListingResult(h, listing, evaluatedCount, fbListingId, now) ==
  LET h1 == [h EXCEPT !.listings = Append(@, listing),
                      !.evaluatedCount = evaluatedCount]
  IN  IF IsSome(fbListingId) /\ IsSome(listing.noCompReason)
      THEN [h1 EXCEPT !.debugEbayQueries =
              [k \in DOMAIN @ |->
                 IF @[k].fbListingId = fbListingId[1]
                 THEN [@[k] EXCEPT !.noCompReason = listing.noCompReason,
                                   !.finishedAtMs = OrNow(@, now)]
                 ELSE @[k]]]
      ELSE h1

onFilteredFacebookListing_replace(h, listing) ==
  [h EXCEPT !.filteredOutListings = <<listing>>]

onFilteredFacebookListing(h, listing) ==
  [h EXCEPT !.filteredOutListings = Append(@, listing)]

onDebugFacebook(h, listings) == [h EXCEPT !.debugFacebookListings = listings]

onDebugFacebookListing(h, listing) ==
  [h EXCEPT !.debugFacebookListings = Append(@, listing)]

(***************************************************************************)
(* dispatchSSEEvent: parse one payload and route it by type.  A payload    *)
(* that does not parse throws; an event that misses what its branch needs  *)
(* falls through every branch and changes nothing.                         *)
(***************************************************************************)
\* the time at which the last payload of the log was dispatched
LastEventMs(log) == EventGapMs * Len(log)

\* Date.now() inside a handler: the clock moves on between two events, so
\* the time of an event follows from its rank among the payloads dispatched
Now(c) == LastEventMs(c.hist.log) + EventGapMs

\* the values of type that a branch of dispatchSSEEvent tests for
RecognizedKinds ==
  { "auth_error", "location_error", "phase", "filtered_facebook_listing",
    "progress", "current_item", "listing_result", "listing_processed", "done",
    "debug_mode", "debug_facebook", "debug_facebook_listing",
    "debug_ebay_query_start", "debug_ebay_query_generated", "debug_ebay_query",
    "debug_ebay_query_finished", "debug_product_recon", "debug_log",
    "inspector_url" }

\* the if / else-if chain on the parsed event
routeEvent(c, data) ==
  IF data.type = "auth_error" THEN [c EXCEPT !.home = handleAuthError(@)]
  ELSE IF data.type = "location_error"
    THEN handleLocationError(c, OrElse(data.message, LocationNotFound))
  ELSE IF data.type = "phase" /\ IsSome(data.phase)
    THEN [c EXCEPT !.home = handlePhaseUpdate(@, data.phase[1])]
  ELSE IF data.type = "filtered_facebook_listing" /\ IsSome(data.listing)
    THEN [c EXCEPT !.home = onFilteredFacebookListing(@, data.listing[1])]
  ELSE IF data.type = "progress" /\ IsSome(data.scannedCount)
    THEN [c EXCEPT !.home = handleProgressUpdate(@, data.scannedCount[1])]
  ELSE IF /\ data.type = "current_item" /\ IsSome(data.listingIndex)
          /\ IsSome(data.fbTitle) /\ IsSome(data.totalListings)
    THEN [c EXCEPT !.home = handleCurrentItem(@,
            [listingIndex |-> data.listingIndex[1], fbTitle |-> data.fbTitle[1],
             totalListings |-> data.totalListings[1]])]
  ELSE IF /\ data.type = "listing_result" /\ IsSome(data.listing)
          /\ IsSome(data.evaluatedCount)
    THEN [c EXCEPT !.home = onListingResult(@, data.listing[1],
            data.evaluatedCount[1], data.fbListingId, Now(c))]
  ELSE IF data.type = "listing_processed" /\ IsSome(data.evaluatedCount)
    THEN [c EXCEPT !.home = setEvaluatedCount(@, data.evaluatedCount[1])]
  ELSE IF data.type = "done" /\ IsSome(data.listings)
    THEN [c EXCEPT !.home = handleCompletion(@,
            [scannedCount |-> OrElse(data.scannedCount, 0),
             filteredCount |-> OrElse(data.filteredCount, 0),
             filteredOutListings |-> OrElse(data.filteredOutListings, <<>>),
             evaluatedCount |-> OrElse(data.evaluatedCount, 0),
             listings |-> data.listings[1]])]
  ELSE IF data.type = "debug_facebook" /\ IsSome(data.listings)
    THEN [c EXCEPT !.home = onDebugFacebook(@, data.listings[1])]
  ELSE IF data.type = "debug_facebook_listing" /\ IsSome(data.listing)
    THEN [c EXCEPT !.home = onDebugFacebookListing(@, data.listing[1])]
  ELSE IF /\ data.type = "debug_ebay_query_start" /\ IsSome(data.fbTitle)
          /\ IsSome(data.listingIndex) /\ IsSome(data.fbListingId)
    THEN [c EXCEPT !.home = onDebugEbayQueryStart(@,
            [fbListingId |-> data.fbListingId[1],
             listingIndex |-> data.listingIndex[1],
             fbTitle |-> data.fbTitle[1]], Now(c))]
  ELSE IF /\ data.type \in {"debug_ebay_query_generated", "debug_ebay_query"}
          /\ IsSome(data.fbTitle) /\ IsSome(data.ebayQuery)
    THEN IF IsSome(data.listingIndex) /\ IsSome(data.fbListingId)
         THEN [c EXCEPT !.home = onDebugEbayQueryGenerated(@,
                 [fbListingId |-> data.fbListingId[1],
                  listingIndex |-> data.listingIndex[1],
                  fbTitle |-> data.fbTitle[1],
                  ebayQuery |-> data.ebayQuery[1]], Now(c))]
         ELSE c
  ELSE IF /\ data.type = "debug_ebay_query_finished"
          /\ IsSome(data.listingIndex) /\ IsSome(data.fbListingId)
    THEN [c EXCEPT !.home = onDebugEbayQueryFinished(@,
            [fbListingId |-> data.fbListingId[1],
             listingIndex |-> data.listingIndex[1],
             failed |-> data.failed], Now(c))]
  ELSE IF /\ data.type = "debug_product_recon" /\ IsSome(data.listingIndex)
          /\ IsSome(data.fbListingId) /\ IsSome(data.recon)
    THEN [c EXCEPT !.home = onDebugProductRecon(@,
            [fbListingId |-> data.fbListingId[1],
             listingIndex |-> data.listingIndex[1],
             recon |-> [canonical_name |->
                          OrElse(data.recon[1].canonical_name, "")]], Now(c))]
  ELSE c

dispatchSSEEvent(c, payloadString) ==
  IF ~JSONValid(payloadString) THEN [c EXCEPT !.thrown = Some("SyntaxError")]
  ELSE CHOOSE r \in {routeEvent(c, data) : data \in {JSONParse(payloadString)}} : TRUE

\* a payload that parses to done, auth_error or location_error and is handled
IsTerminalPayload(p) ==
  /\ JSONValid(p)
  /\ LET data == JSONParse(p)
     IN  \/ data.type \in {"auth_error", "location_error"}
         \/ data.type = "done" /\ IsSome(data.listings)

\* what a search run collects: the collections and the counts
Collected(h) ==
  [listings |-> h.listings, filteredOutListings |-> h.filteredOutListings,
   debugFacebookListings |-> h.debugFacebookListings,
   scannedCount |-> h.scannedCount, filteredCount |-> h.filteredCount,
   evaluatedCount |-> h.evaluatedCount]

\* the run started by the latest accepted submission
LatestRun(c) == Cardinality({i \in Runs : c.loop[i].pc # "idle"})

\* the history after c1 was reached from c by dispatching payloadString
Recorded(c, c1, payloadString) ==
  LET changed == Session(c1.home) # Session(c.home)
  IN  [c1 EXCEPT
         !.hist.changedByEarlierRun =
            @ \/ (c.self # LatestRun(c) /\ Collected(c1.home) # Collected(c.home)),
         !.hist.log = Append(c.hist.log, payloadString),
         !.hist.terminalSeen = @ \/ IsTerminalPayload(payloadString),
         !.hist.changedAfterTerminal = @ \/ (c.hist.terminalSeen /\ changed),
         !.hist.changedAfterCancel = @ \/ (c.hist.cancelInvoked /\ changed)]

\* dispatchSSEEvent, were it to throw on a type it has no branch for
Dispatch_rejectUnknown(c, payloadString) ==
  CHOOSE r \in {Recorded(c, c1, payloadString) :
                  c1 \in {IF /\ JSONValid(payloadString)
                              /\ JSONParse(payloadString).type \notin RecognizedKinds
                           THEN [c EXCEPT !.thrown = Some("Unknown event")]
                           ELSE dispatchSSEEvent(c, payloadString)}} : TRUE

\* dispatchSSEEvent together with the history it leaves
Dispatch(c, payloadString) ==
  CHOOSE r \in {Recorded(c, c1, payloadString) :
                  c1 \in {dispatchSSEEvent(c, payloadString)}} : TRUE

(***************************************************************************)
(* parseSSEStream: one iteration of the read loop, from the result of      *)
(* reader.read() to the next read, the break or the throw.                 *)
(***************************************************************************)
DispatchLine_swallow(c, line) ==
  IF IsSome(c.thrown) \/ ~startsWithData(line) THEN c
  ELSE [Dispatch(c, slice6(line)) EXCEPT !.thrown = None]

\* the body of the for loop; its catch rethrows, so the first failing line ends
\* the loop
DispatchLine(c, line) ==
  IF IsSome(c.thrown) \/ ~startsWithData(line) THEN c
  ELSE Dispatch(c, slice6(line))

\* for (const line of lines) { ... }
RECURSIVE ForLines(_, _)
ForLines(c, lines) ==
  IF lines = <<>> THEN c
  ELSE LET rest == {ForLines(c1, ls) : c1 \in {DispatchLine(c, Head(lines))},
                                       ls \in {Tail(lines)}}
       IN  CHOOSE r \in rest : TRUE

\* the try / catch {} around the trailing fragment after the for loop
DispatchTrailing(c, buffer) ==
  IF startsWithData(buffer)
  THEN [Dispatch(c, slice6(buffer)) EXCEPT !.thrown = None]
  ELSE c

\* after the for loop: the rethrown error, the trailing fragment at the end of
\* the stream, or the next read
AfterLines(c1, lp2, done) ==
  IF IsSome(c1.thrown) THEN [c |-> c1, loop |-> lp2, exit |-> "throw"]
  ELSE IF done
  THEN [c |-> DispatchTrailing(c1, lp2.buffer), loop |-> lp2, exit |-> "break"]
  ELSE [c |-> c1, loop |-> lp2, exit |-> "continue"]

Reverse(s) == [i \in 1..Len(s) |-> s[Len(s) + 1 - i]]

\* the for loop, were it to take the lines of a chunk last to first
SplitAndDispatch_lastFirst(c, lp, lines0, done) ==
  LET lines == Reverse(IF done THEN lines0 ELSE Front(lines0))
      lp2   == [lp EXCEPT !.buffer = IF done THEN <<>> ELSE Last(lines0)]
  IN  CHOOSE r \in {AfterLines(c1, lp2, done) : c1 \in {ForLines(c, lines)}} : TRUE

\* lines = buffer.split("\n"); buffer = done ? "" : lines.pop(); the for loop
SplitAndDispatch(c, lp, lines0, done) ==
  LET lines == IF done THEN lines0 ELSE Front(lines0)
      lp2   == [lp EXCEPT !.buffer = IF done THEN <<>> ELSE Last(lines0)]
  IN  CHOOSE r \in {AfterLines(c1, lp2, done) : c1 \in {ForLines(c, lines)}} : TRUE

\* buffer += decoder.decode(...); without a newline the loop reads on
Decoded(c, lp, dec, done) ==
  LET lp1 == [lp EXCEPT !.buffer = @ \o dec.text, !.pending = dec.pending]
  IN  IF ~includesNewline(lp1.buffer) /\ ~done
      THEN [c |-> c, loop |-> lp1, exit |-> "continue"]
      ELSE CHOOSE r \in {SplitAndDispatch(c, lp1, lines0, done) :
                           lines0 \in {split(lp1.buffer)}} : TRUE

ReadIteration(c, lp, value, done) ==
  CHOOSE r \in {Decoded(c, lp, dec, done) :
                  dec \in {decode(lp.pending, value, ~done)}} : TRUE

\* catch and finally of parseSSEStream: reader.cancel() when the loop threw,
\* reader.releaseLock() always
parseSSEStreamExit(c) ==
  LET c1 == IF IsSome(c.thrown) /\ c.reader[c.self].locked
            THEN [c EXCEPT !.reader[c.self].cancelled = TRUE]
            ELSE c
  IN  [c1 EXCEPT !.reader[c.self].locked = FALSE]

\* catch and finally of performSearch, were the finally block to leave the
\* guard as it is
performSearchExit_keepGuard(c) ==
  LET c1 == IF IsSome(c.thrown) /\ c.thrown[1] # "AbortError"
            THEN [c EXCEPT !.home.error = Some(c.thrown[1]),
                           !.home.appState = "error"]
            ELSE c
  IN  [c1 EXCEPT !.home.abortControllerRef = None, !.home.readerRef = None]

\* catch and finally of performSearch
performSearchExit(c) ==
  LET c1 == IF IsSome(c.thrown) /\ c.thrown[1] # "AbortError"
            THEN [c EXCEPT !.home.error = Some(c.thrown[1]),
                           !.home.appState = "error"]
            ELSE c
  IN  [c1 EXCEPT !.home.isSearchingRef = FALSE, !.home.isSearching = FALSE,
                 !.home.abortControllerRef = None, !.home.readerRef = None]

\* performSearch returns: the run is over, with the error that ended it
Returned(c, out) ==
  [out EXCEPT !.loop[c.self].pc = "ended", !.loop[c.self].thrown = c.thrown,
              !.thrown = None]

\* the run ends inside parseSSEStream, or before it
EndedInStream(c) == Returned(c, performSearchExit(parseSSEStreamExit(c)))
EndedInFetch(c) == Returned(c, performSearchExit(c))

\* the state a read leaves: the run over, or the next reader.read() called,
\* which rejects at once when the reader was released or the request aborted
\* by a handler of this very iteration
AfterRead(r) ==
  LET c == [r.c EXCEPT !.loop[r.c.self] = r.loop]
  IN  IF r.exit # "continue" THEN EndedInStream(c)
      ELSE IF ~c.reader[c.self].locked THEN Settle(c, c.self, "TypeError")
      ELSE IF c.controller[c.self].aborted THEN Settle(c, c.self, "AbortError")
      ELSE c

\* the continuation of run e.run after the promise it awaited settled
Resume(c0, e) ==
  LET c == As(c0, e.run)
  IN  IF c.loop[e.run].pc = "read"
      THEN IF e.with = "done"
           THEN CHOOSE w \in {AfterRead(it) :
                               it \in {ReadIteration(c, c.loop[e.run], <<>>, TRUE)}} : TRUE
           ELSE EndedInStream([c EXCEPT !.thrown = Some(e.with)])
      ELSE IF c.loop[e.run].pc = "fetch"
      THEN EndedInFetch([c EXCEPT !.thrown = Some(e.with)])
      ELSE c0

\* the microtask checkpoint: every queued continuation runs, in order, before
\* the browser handles the next event
RECURSIVE Drain(_)
Drain(c) ==
  IF c.queue = <<>> THEN c
  ELSE CHOOSE w \in {Drain(n) :
         n \in {Resume([c EXCEPT !.queue = Tail(@)], Head(c.queue))}} : TRUE

(***************************************************************************)
(* SearchLoadingView: the two memoised url sets, the pending rows and the  *)
(* combined display list, computed at each render while appState is        *)
(* loading.                                                                *)
(***************************************************************************)
UrlSet(ls) == {ls[i].url : i \in DOMAIN ls}

SelectNot(ls, urls) == SelectSeq(ls, LAMBDA l : l.url \notin urls)

filteredOutToListing(row) ==
  [MkListing(row.url, row.title) EXCEPT
     !.noCompReason = Some(OrElse(row.filterReason, "Filtered before evaluation"))]

pendingToListing(fb) == MkListing(fb.url, fb.title)

\* facebookListings.filter(...).map(...) and filteredOutListings.map(...)
pendingRows(s) == [i \in DOMAIN s |-> pendingToListing(s[i])]
filteredOutRows(s) == [i \in DOMAIN s |-> filteredOutToListing(s[i])]

Unmounted ==
  [mounted |-> FALSE, depListings |-> <<>>, depFilteredOut |-> <<>>,
   evaluatedListingUrls |-> {}, filteredOutListingUrls |-> {},
   allFacebookListingsAsListings |-> <<>>, displayListings |-> <<>>,
   nowMs |-> 0]

SearchLoadingView_evaluatedOnly(prev, h) ==
  LET evaluatedListingUrls == UrlSet(h.listings)
      pending == pendingRows(
                        SelectNot(h.debugFacebookListings, evaluatedListingUrls))
  IN  [mounted |-> TRUE, depListings |-> h.listings,
       depFilteredOut |-> h.filteredOutListings,
       evaluatedListingUrls |-> evaluatedListingUrls,
       filteredOutListingUrls |-> UrlSet(h.filteredOutListings),
       allFacebookListingsAsListings |-> pending,
       displayListings |->
         h.listings \o pending \o filteredOutRows(h.filteredOutListings),
       nowMs |-> prev.nowMs]

SearchLoadingView(prev, h) ==
  LET evaluatedListingUrls ==
        IF prev.mounted /\ prev.depListings = h.listings
        THEN prev.evaluatedListingUrls ELSE UrlSet(h.listings)
      filteredOutListingUrls ==
        IF prev.mounted /\ prev.depFilteredOut = h.filteredOutListings
        THEN prev.filteredOutListingUrls ELSE UrlSet(h.filteredOutListings)
      pending ==
        IF Len(h.debugFacebookListings) > 0
        THEN pendingRows(
                    SelectNot(h.debugFacebookListings,
                              evaluatedListingUrls \cup filteredOutListingUrls))
        ELSE <<>>
  IN  [mounted |-> TRUE, depListings |-> h.listings,
       depFilteredOut |-> h.filteredOutListings,
       evaluatedListingUrls |-> evaluatedListingUrls,
       filteredOutListingUrls |-> filteredOutListingUrls,
       allFacebookListingsAsListings |-> pending,
       displayListings |->
         h.listings \o pending \o filteredOutRows(h.filteredOutListings),
       nowMs |-> prev.nowMs]

\* Home renders SearchLoadingView only while appState is loading
\* and the view takes its first nowMs from the clock when it mounts
Render(prev, h, now) ==
  IF h.appState = "loading"
  THEN SearchLoadingView(IF prev.mounted THEN prev
                         ELSE [Unmounted EXCEPT !.nowMs = now], h)
  ELSE Unmounted

(***************************************************************************)
(* ResultsTable: the order of the rows.                                    *)
(***************************************************************************)
FILTERED_RECENCY_OFFSET == 1000000

\* getListingFilterInfo; String(x).trim() !== "" of a query is x not blank
getListingFilterInfo(listing, filteredOutUrls) ==
  LET inFilteredOut == listing.url \in filteredOutUrls
      hasNoCompReason == IsSome(listing.noCompReason) /\ listing.noCompReason[1] # ""
      ranEbayQuery == /\ IsSome(listing.ebaySearchQuery)
                      /\ listing.ebaySearchQuery[1] \notin {"", " "}
      isFiltered == /\ listing.dealScore = None
                    /\ (inFilteredOut \/ (hasNoCompReason /\ ~ranEbayQuery))
  IN  IF ~isFiltered THEN [isFiltered |-> FALSE, isPostEval |-> FALSE]
      ELSE [isFiltered |-> TRUE, isPostEval |-> hasNoCompReason /\ ~inFilteredOut]

\* displayListings.forEach: the filtered listings with their index (from 0)
\* and the others, both in the order of the list
filteredEntries(displayListings, filteredOutUrls) ==
  LET keep == SelectSeq([i \in DOMAIN displayListings |-> i],
                LAMBDA i : getListingFilterInfo(displayListings[i],
                                                filteredOutUrls).isFiltered)
  IN  [j \in DOMAIN keep |->
         [listing |-> displayListings[keep[j]], idx |-> keep[j] - 1,
          isPostEval |-> getListingFilterInfo(displayListings[keep[j]],
                                              filteredOutUrls).isPostEval]]

nonFilteredListings(displayListings, filteredOutUrls) ==
  SelectSeq(displayListings,
            LAMBDA l : ~getListingFilterInfo(l, filteredOutUrls).isFiltered)

\* a comparator that forgets the offset of the listings filtered after
\* evaluation
recency_noOffset(f) == f.idx

\* recencyA, recencyB of the comparator
recency(f) == IF f.isPostEval THEN f.idx + FILTERED_RECENCY_OFFSET ELSE f.idx

\* x put behind the entries it does not come before: the comparator
\* recencyB - recencyA is negative when a goes first
insertByRecency(done, x) ==
  CHOOSE r \in
    {[i \in 1..(Len(done) + 1) |->
        IF i <= at THEN done[i]
        ELSE IF i = at + 1 THEN x ELSE done[i - 1]] :
       at \in {Cardinality({i \in DOMAIN done :
                              recency(x) - recency(done[i]) <= 0})}} : TRUE

\* Array.prototype.sort with (a, b) => recencyB - recencyA, a stable sort
RECURSIVE sortByRecency(_)
sortByRecency(fs) ==
  IF fs = <<>> THEN <<>>
  ELSE CHOOSE r \in {insertByRecency(done, Last(fs)) :
                       done \in {sortByRecency(Front(fs))}} : TRUE

\* the rows with the filtered ones first
sortedDisplayListings_filteredFirst(displayListings, filteredOutUrls) ==
  CHOOSE r \in
    {[i \in DOMAIN fs |-> fs[i].listing]
       \o nonFilteredListings(displayListings, filteredOutUrls) :
       fs \in {sortByRecency(filteredEntries(displayListings, filteredOutUrls))}} : TRUE

\* sortedDisplayListings: [...nonFiltered, ...filtered.map((f) => f.listing)]
sortedDisplayListings(displayListings, filteredOutUrls) ==
  CHOOSE r \in
    {nonFilteredListings(displayListings, filteredOutUrls)
       \o [i \in DOMAIN fs |-> fs[i].listing] :
       fs \in {sortByRecency(filteredEntries(displayListings, filteredOutUrls))}} : TRUE

(***************************************************************************)
(* The elapsed time of a telemetry entry as the tables show it.            *)
(***************************************************************************)
ELAPSED_TIME_UPDATE_INTERVAL_MS == 100

\* the text minutes:seconds.tenths as its three numbers, computed without
\* Math.max(0, elapsedMs)
formatElapsedMs_unclamped(elapsedMs) ==
  CHOOSE r \in
    {[minutes |-> totalTenths \div 600,
      seconds |-> (totalTenths % 600) \div 10,
      tenths |-> totalTenths % 10] :
       totalTenths \in {elapsedMs \div 100}} : TRUE

\* formatElapsedMs: Math.max(0, elapsedMs) in tenths of a second

formatElapsedMs(elapsedMs) ==
  CHOOSE r \in
    {[minutes |-> totalTenths \div 600,
      seconds |-> (totalTenths % 600) \div 10,
      tenths |-> totalTenths % 10] :
       totalTenths \in {(IF elapsedMs < 0 THEN 0 ELSE elapsedMs) \div 100}} : TRUE

\* (entry.finishedAtMs ?? nowMs) - entry.startedAtMs
elapsedMs(entry, nowMs) == OrElse(entry.finishedAtMs, nowMs) - entry.startedAtMs

\* the timer of EbayQueryCell in the debug panel
EbayQueryCell(entry, nowMs) == formatElapsedMs(elapsedMs(entry, nowMs))

\* the elapsed time of a row of ResultsTable whose listing has the telemetry
\* entry ebayQuery, if it has one: no time for a filtered row, for a row
\* without an entry or for a negative difference
itemElapsedFormatted(ebayQuery, nowMs, isFilteredOut) ==
  IF isFilteredOut THEN None
  ELSE IF IsSome(ebayQuery) /\ ebayQuery[1].startedAtMs # 0
  THEN IF elapsedMs(ebayQuery[1], nowMs) >= 0
       THEN Some(formatElapsedMs(elapsedMs(ebayQuery[1], nowMs)))
       ELSE None
  ELSE None

(***************************************************************************)
(* The streams the server may send.                                        *)
(***************************************************************************)
SeqsUpTo(S, n) == UNION {[1..k -> S] : k \in 0..n}

RECURSIVE JoinLines(_)
JoinLines(ls) ==
  IF ls = <<>> THEN <<>>
  ELSE IF Len(ls) = 1 THEN Head(ls)
  ELSE Head(ls) \o <<NL>> \o JoinLines(Tail(ls))

DataLine(body) == DataPrefix \o Json(body)

\* a data line whose payload was cut short
TruncatedLine == DataPrefix \o <<"{", "p">>

\* lines of the streams that are cut at any byte: events, a payload that is
\* not JSON, a blank keep-alive line and a comment line
ChunkLines ==
  { DataLine(<<"p">>), DataLine(<<"d", "E9">>), DataLine(<<"e">>),
    DataLine(<<"a">>), TruncatedLine, <<>>, <<":", "k">> }

\* texts of at most MaxLines lines, the last one terminated or not
ChunkTexts ==
  LET joined == {JoinLines(ls) : ls \in SeqsUpTo(ChunkLines, MaxLines) \ {<<>>}}
  IN  {<<>>} \cup joined \cup {t \o <<NL>> : t \in joined}

\* a response delivered byte by byte: a read may return any number of bytes
ByteSegments(text) ==
  LET bytes == Utf8Encode(text) IN [i \in DOMAIN bytes |-> <<bytes[i]>>]

ByteResponses == {ByteSegments(t) : t \in ChunkTexts}

\* events of the streams that are cut between lines
EventBodies ==
  { <<"p">>, <<"r">>, <<"R">>, <<"f">>, <<"F">>, <<"g">>, <<"l">>, <<"L">>,
    <<"d">>, <<"D">>, <<"a">>, <<"e">> }

\* a response delivered line by line: a read returns one or more whole lines
LineSegments(bodies) ==
  [i \in DOMAIN bodies |-> Utf8Encode(DataLine(bodies[i]) \o <<NL>>)]

\* phase{scraping}, progress{5}, listing_result{a, 1}, done{listings: [a]}
ScenarioA == LineSegments(<< <<"s">>, <<"p">>, <<"r">>, <<"d">> >>)

\* filtered_facebook_listing{a} followed by listing_result{a}
ScenarioE == LineSegments(<< <<"f">>, <<"r">> >>)

LineResponses ==
  {LineSegments(bs) : bs \in SeqsUpTo(EventBodies, MaxEvents)}
    \cup {ScenarioA, ScenarioE}

\* events for the dispatcher alone: well-formed ones, a filtered count, ones
\* that lack a required field, one of an unknown kind and one without a type
MaxDispatch == 2

DispatchBodies ==
  { <<"p">>, <<"i">>, <<"K">>, <<"q">>, <<"x">>, <<"y">>, <<"w">>, <<"c">>, <<"z">>,
    <<"k">>, <<"u">>, <<"n">>, <<"h">>, <<"t">> }

DispatchResponses ==
  {LineSegments(bs) : bs \in SeqsUpTo(DispatchBodies, MaxDispatch)}

\* the diagnostic timeline of a listing, in any order and with repeats
MaxTelemetry == 3

TelemetryBodies == { <<"1">>, <<"2">>, <<"3">>, <<"4">>, <<"5">>, <<"6">> }

TelemetryResponses ==
  {LineSegments(bs) : bs \in SeqsUpTo(TelemetryBodies, MaxTelemetry)}

\* the rows of the table: evaluated listings with and without comparables,
\* listings filtered before evaluation and a listing not evaluated yet
MaxRows == 4

RowBodies ==
  { <<"r">>, <<"5">>, <<"7">>, <<"8">>, <<"f">>, <<"F">>, <<"L">> }

RowResponses == {LineSegments(bs) : bs \in SeqsUpTo(RowBodies, MaxRows)}

\* the whole stream as text, and its lines
StreamText == Utf8Decode(Flatten(response), FALSE).text
StreamLines == split(StreamText)

(***************************************************************************)
(* Streams for the runs in which the user cancels, resets and resubmits.   *)
(***************************************************************************)
Line(body) == Utf8Encode(DataLine(body) \o <<NL>>)

\* listing_result then done; the server closes the stream afterwards
RespDone == <<Line(<<"r">>), Line(<<"d">>)>>

\* auth_error, location_error: the first line of the stream
RespAuth == <<Line(<<"a">>)>>
RespLocation == <<Line(<<"e">>)>>

\* listing_result and progress, cut by the network after the payload of the
\* first (its newline not yet there) and inside the payload of the second;
\* the stream ends without a done event
RespHeld ==
  << Utf8Encode(DataLine(<<"r">>)),
     Utf8Encode(<<NL>> \o TruncatedLine),
     Utf8Encode(<<"}", NL>>) >>

RunResponses == {RespDone, RespAuth, RespLocation, RespHeld}

\* streams that go on after their terminal event: auth_error, then a
\* listing_result; done, then a progress event
RespAuthThen == <<Line(<<"a">>), Line(<<"r">>)>>
RespDoneThen == <<Line(<<"d">>), Line(<<"p">>)>>

LateResponses == {RespAuthThen, RespDoneThen}

(***************************************************************************)
(* Initial state: Home just constructed, nothing requested yet.            *)
(***************************************************************************)
InitCommon ==
  /\ reader = [i \in Runs |-> ReaderInit]
  /\ controller = [i \in Runs |-> ControllerInit]
  /\ loop = [i \in Runs |-> LoopInit]
  /\ view = Unmounted
  /\ tasks = [submits |-> 0, cancels |-> 0]
  /\ hist = HistInit

Init == home = HomeInit /\ InitCommon /\ response \in LineResponses

InitChunks == home = HomeInit /\ InitCommon /\ response \in ByteResponses

InitDispatch == home = HomeInit /\ InitCommon /\ response \in DispatchResponses

InitTelemetry == home = HomeInit /\ InitCommon /\ response \in TelemetryResponses

InitRows == home = HomeInit /\ InitCommon /\ response \in RowResponses

\* debugModeEnabled is read from localStorage when Home is constructed
InitRuns ==
  /\ home \in {[HomeInit EXCEPT !.debugModeEnabled = b] : b \in BOOLEAN}
  /\ InitCommon
  /\ response \in RunResponses

InitLate == home = HomeInit /\ InitCommon /\ response \in LateResponses

(***************************************************************************)
(* Actions.  Each is one task of the browser: the code that runs, then the *)
(* continuations it made due (Drain), then the render.                     *)
(***************************************************************************)
Commit(c) ==
  /\ home' = c.home
  /\ reader' = c.reader
  /\ controller' = c.controller
  /\ loop' = c.loop
  /\ hist' = c.hist
  /\ view' = Render(view, c.home, LastEventMs(c.hist.log))
  /\ UNCHANGED response

\* the runs performSearch has started
Started == {i \in Runs : loop[i].pc # "idle"}

\* no validated submission is about to call onSubmit: validation takes no
\* longer than a task, so onSubmit runs before the browser handles anything
\* but a further click on the form that is still on screen
NoSubmitDue == tasks.submits = 0

\* the effect run on mount: GET /api/cookies/status decides the first screen
checkCookies ==
  /\ NoSubmitDue
  /\ ~home.cookiesChecked
  /\ \E configured \in BOOLEAN :
       home' = [home EXCEPT !.appState = IF configured THEN "form" ELSE "setup",
                            !.cookiesChecked = TRUE]
  /\ view' = Render(view, home', LastEventMs(hist.log))
  /\ UNCHANGED <<reader, controller, loop, response, tasks, hist>>

\* CookieSetupGuide.onSuccess, offered while the setup guide is shown
onSuccess ==
  /\ NoSubmitDue
  /\ home.appState = "setup"
  /\ home.cookiesChecked
  /\ home' = [home EXCEPT !.error = None, !.appState = "form"]
  /\ view' = Render(view, home', LastEventMs(hist.log))
  /\ UNCHANGED <<reader, controller, loop, response, tasks, hist>>

\* handleSubmit = handleFormSubmit(onSubmit): a click on the form's submit
\* button; the form validates asynchronously and calls onSubmit afterwards
handleSubmit ==
  /\ home.appState = "form"
  /\ Cardinality(Started) + tasks.submits < MaxSubmits
  /\ tasks' = [tasks EXCEPT !.submits = @ + 1]
  /\ UNCHANGED <<home, reader, controller, loop, response, view, hist>>

onSubmit_unguarded ==
  /\ tasks.submits > 0
  /\ tasks' = [tasks EXCEPT !.submits = @ - 1]
  /\ \E n \in {Cardinality(Started) + 1} :
          /\ home' = [home EXCEPT
                 !.scannedCount = 0, !.filteredCount = 0,
                 !.filteredOutListings = <<>>, !.evaluatedCount = 0,
                 !.listings = <<>>, !.error = None, !.phase = "scraping",
                 !.currentItem = None, !.debugFacebookListings = <<>>,
                 !.debugEbayQueries = <<>>,
                 !.debugLogs = <<"sep", "Step 1", "sep">>,
                 !.appState = "loading",
                 !.isSearchingRef = TRUE, !.isSearching = TRUE,
                 !.abortControllerRef = Some(n)]
          /\ controller' = [controller EXCEPT ![n] = ControllerInit]
          /\ loop' = [loop EXCEPT ![n].pc = "fetch"]
          /\ view' = Render(view, home', LastEventMs(hist.log))
          /\ hist' = [HistInit EXCEPT !.cancelRuns = hist.cancelRuns]
          /\ UNCHANGED <<reader, response>>

\* onSubmit and the synchronous head of performSearch, up to the fetch
onSubmit ==
  /\ tasks.submits > 0
  /\ tasks' = [tasks EXCEPT !.submits = @ - 1]
  /\ IF home.isSearchingRef
     THEN /\ hist' = [hist EXCEPT !.refused = @ + 1]
          /\ UNCHANGED <<home, reader, controller, loop, response, view>>
     ELSE \E n \in {Cardinality(Started) + 1} :
          /\ home' = [home EXCEPT
                 !.scannedCount = 0, !.filteredCount = 0,
                 !.filteredOutListings = <<>>, !.evaluatedCount = 0,
                 !.listings = <<>>, !.error = None, !.phase = "scraping",
                 !.currentItem = None, !.debugFacebookListings = <<>>,
                 !.debugEbayQueries = <<>>,
                 !.debugLogs = <<"sep", "Step 1", "sep">>,
                 !.appState = "loading",
                 !.isSearchingRef = TRUE, !.isSearching = TRUE,
                 !.abortControllerRef = Some(n)]
          /\ controller' = [controller EXCEPT ![n] = ControllerInit]
          /\ loop' = [loop EXCEPT ![n].pc = "fetch"]
          /\ view' = Render(view, home', LastEventMs(hist.log))
          /\ hist' = [HistInit EXCEPT !.cancelRuns = hist.cancelRuns]
          /\ UNCHANGED <<reader, response>>

\* the fetch resolves with an OK response that has a body: getReader(),
\* readerRef.current = reader, and parseSSEStream starts
fetchResolves ==
  \E i \in Runs :
    /\ NoSubmitDue
    /\ loop[i].pc = "fetch"
    /\ home' = [home EXCEPT !.readerRef = Some(i)]
    /\ reader' = [reader EXCEPT ![i] = [cancelled |-> FALSE, locked |-> TRUE]]
    /\ loop' = [loop EXCEPT ![i] = [LoopInit EXCEPT !.pc = "read", !.net = response]]
    /\ view' = Render(view, home', LastEventMs(hist.log))
    /\ UNCHANGED <<controller, response, tasks, hist>>

\* the fetch rejects, or resolves with a status that is not OK or without a
\* body: performSearch throws before parseSSEStream is called
FetchErrors == {"Failed to fetch", "HTTP error", "No response body"}

fetchFails ==
  \E i \in Runs, err \in FetchErrors :
    /\ NoSubmitDue
    /\ loop[i].pc = "fetch"
    /\ \E c \in {EndedInFetch([As(Ctx, i) EXCEPT !.thrown = Some(err)])} :
         \E w \in {Drain(c)} : Commit(w)
    /\ UNCHANGED tasks

\* reader.read() resolves with the next k segments as one chunk
readChunk ==
  \E i \in Runs :
    /\ NoSubmitDue
    /\ loop[i].pc = "read"
    /\ reader[i].locked
    /\ \E k \in 1..Len(loop[i].net) :
         \E value \in {Flatten(SubSeq(loop[i].net, 1, k))} :
           \E lp \in {[loop[i] EXCEPT !.net = SubSeq(@, k + 1, Len(@))]} :
             \E it \in {ReadIteration(As(Ctx, i), lp, value, FALSE)} :
               \E c \in {AfterRead(it)} :
                 \E w \in {Drain(c)} : Commit(w)
    /\ UNCHANGED tasks

\* reader.read() resolves with done: true once the body is exhausted
readEnd ==
  \E i \in Runs :
    /\ NoSubmitDue
    /\ loop[i].pc = "read"
    /\ reader[i].locked
    /\ loop[i].net = <<>>
    /\ \E it \in {ReadIteration(As(Ctx, i), loop[i], <<>>, TRUE)} :
         \E c \in {AfterRead(it)} :
           \E w \in {Drain(c)} : Commit(w)
    /\ UNCHANGED tasks

\* reader.read() rejects: the connection broke while the body was read
readFails ==
  \E i \in Runs :
    /\ NoSubmitDue
    /\ loop[i].pc = "read"
    /\ reader[i].locked
    /\ \E c \in {EndedInStream([As(Ctx, i) EXCEPT !.thrown = Some("network error")])} :
         \E w \in {Drain(c)} : Commit(w)
    /\ UNCHANGED tasks

\* a click on the cancel button of the loading view: cancelSearch up to its
\* await, the POST /api/search/cancel sent
cancelSearch ==
  /\ NoSubmitDue
  /\ home.appState = "loading"
  /\ hist.notifications < MaxCancels
  /\ tasks' = [tasks EXCEPT !.cancels = @ + 1]
  /\ hist' = [hist EXCEPT !.notifications = @ + 1, !.cancelInvoked = TRUE,
                           !.cancelRuns = Append(@, Cardinality(Started))]
  /\ UNCHANGED <<home, reader, controller, loop, response, view>>

\* the "Search cancelled by user" line, added in debug mode
addCancelLog(c) ==
  IF c.home.debugModeEnabled
  THEN [c EXCEPT !.home.debugLogs = Append(@, "Search cancelled by user")]
  ELSE c

\* the POST settled, fulfilled or rejected alike: the rest of cancelSearch
cancelSearchContinues ==
  /\ NoSubmitDue
  /\ tasks.cancels > 0
  /\ tasks' = [tasks EXCEPT !.cancels = @ - 1]
  /\ \E settled \in {"fulfilled", "rejected"} :
       \E c \in {cancelSearchLocal(
                  addCancelLog([Ctx EXCEPT !.hist.cancelRuns = Tail(@)]), TRUE)} :
         \E w \in {Drain(c)} : Commit(w)

\* "reset" on the results and on the error screen
handleReset ==
  /\ NoSubmitDue
  /\ home.appState \in {"done", "error"}
  /\ home' = [home EXCEPT
         !.appState = "form", !.scannedCount = 0, !.filteredCount = 0,
         !.filteredOutListings = <<>>, !.evaluatedCount = 0,
         !.listings = <<>>, !.error = None, !.currentItem = None,
         !.debugFacebookListings = <<>>, !.debugEbayQueries = <<>>,
         !.isSearchingRef = FALSE, !.isSearching = FALSE]
  /\ view' = Render(view, home', LastEventMs(hist.log))
  /\ UNCHANGED <<reader, controller, loop, response, tasks, hist>>

\* one search, which the user leaves alone
Next ==
  \/ checkCookies
  \/ onSuccess
  \/ (Started = {} /\ tasks.submits = 0 /\ handleSubmit)
  \/ onSubmit
  \/ fetchResolves
  \/ readChunk
  \/ readEnd

Spec == Init /\ [][Next]_vars

SpecChunks == InitChunks /\ [][Next]_vars

SpecDispatch == InitDispatch /\ [][Next]_vars

SpecTelemetry == InitTelemetry /\ [][Next]_vars

\* the interval timer of the loading view fires: setNowMs(Date.now()), at a
\* time between the last event dispatched and the next
tick ==
  /\ view.mounted
  /\ \E t \in LastEventMs(hist.log) .. (LastEventMs(hist.log) + EventGapMs) :
       /\ t % ELAPSED_TIME_UPDATE_INTERVAL_MS = 0
       /\ t > view.nowMs
       /\ view' = [view EXCEPT !.nowMs = t]
  /\ UNCHANGED <<home, reader, controller, loop, response, tasks, hist>>

NextTicks == Next \/ tick

SpecRows == InitRows /\ [][Next]_vars

SpecTicks == InitTelemetry /\ [][NextTicks]_vars

\* searches that fail, that the user cancels, resets and submits again
NextRuns ==
  \/ checkCookies
  \/ onSuccess
  \/ handleSubmit
  \/ onSubmit
  \/ fetchResolves
  \/ fetchFails
  \/ readChunk
  \/ readEnd
  \/ readFails
  \/ cancelSearch
  \/ cancelSearchContinues
  \/ handleReset

SpecRuns == InitRuns /\ [][NextRuns]_vars

\* the same, on streams that go on after their terminal event
SpecLate == InitLate /\ [][NextRuns]_vars

\* what the browser guarantees: a validated submission calls onSubmit, a
\* search request and a read settle.  Nothing makes the user click, and
\* nothing bounds the time POST /api/search/cancel takes.
SpecRunsFair ==
  /\ SpecRuns
  /\ WF_vars(onSubmit)
  /\ WF_vars(fetchResolves \/ fetchFails)
  /\ WF_vars(readChunk \/ readEnd \/ readFails)

(***************************************************************************)
(* Properties.                                                             *)
(***************************************************************************)
IsPrefix(s, t) == Len(s) <= Len(t) /\ s = SubSeq(t, 1, Len(s))

\* the payloads of the data lines among the first n lines of the stream
RECURSIVE PayloadsOf(_)
PayloadsOf(lines) ==
  IF lines = <<>> THEN <<>>
  ELSE (IF startsWithData(Head(lines)) THEN <<slice6(Head(lines))>> ELSE <<>>)
       \o PayloadsOf(Tail(lines))

\* the lines of the stream that end with a newline
CompleteLines == Front(StreamLines)

\* what is left after the last newline when the stream ends
TrailingFragment == Last(StreamLines)

IsBadLine(line) == startsWithData(line) /\ ~JSONValid(slice6(line))

BadCompleteLines == {i \in DOMAIN CompleteLines : IsBadLine(CompleteLines[i])}

FirstBadCompleteLine ==
  CHOOSE i \in BadCompleteLines : \A j \in BadCompleteLines : i <= j

\* a complete line that carries a location_error event
HasLocationErrorLine ==
  \E i \in DOMAIN CompleteLines :
    /\ startsWithData(CompleteLines[i])
    /\ JSONValid(slice6(CompleteLines[i]))
    /\ JSONParse(slice6(CompleteLines[i])).type = "location_error"

\* the step in which performSearch returns, for the first run
RunEnds == loop[1].pc = "read" /\ loop'[1].pc = "ended"

\* the run in which the whole body arrives as one chunk, then end-of-stream
LoadingHome ==
  [HomeInit EXCEPT !.appState = "loading", !.cookiesChecked = TRUE,
                   !.debugLogs = <<"sep", "Step 1", "sep">>,
                   !.isSearchingRef = TRUE, !.isSearching = TRUE,
                   !.abortControllerRef = Some(1), !.readerRef = Some(1)]

SingleChunkRun(resp) ==
  LET c0 == [home |-> LoadingHome,
             reader |-> [i \in Runs |-> IF i = 1 THEN [cancelled |-> FALSE, locked |-> TRUE]
                                                ELSE ReaderInit],
             controller |-> [i \in Runs |-> ControllerInit],
             loop |-> [i \in Runs |-> IF i = 1 THEN [LoopInit EXCEPT !.pc = "read"]
                                              ELSE LoopInit],
             hist |-> HistInit, thrown |-> None, self |-> 1, queue |-> <<>>]
      c1 == Drain(AfterRead(ReadIteration(c0, c0.loop[1], Flatten(resp), FALSE)))
  IN  IF c1.loop[1].pc = "ended" THEN c1
      ELSE Drain(AfterRead(ReadIteration(As(c1, 1), c1.loop[1], <<>>, TRUE)))

\* C1: however the stream is split into chunks, parseSSEStream dispatches the
\* same payloads in the same order as when the whole stream arrives as one
\* chunk followed by end-of-stream.
C1_ChunkingIrrelevant ==
  loop[1].pc = "ended" => hist.log = SingleChunkRun(response).hist.log

\* C2: a complete data line whose payload is not valid JSON aborts the read
\* loop: no later line is dispatched, the reader is cancelled and released, the
\* run ends with appState = error and a message, and the guard is cleared.
C2_MalformedLineAborts ==
  [][ (RunEnds /\ BadCompleteLines # {}) =>
        /\ IsPrefix(hist'.log,
                    PayloadsOf(SubSeq(CompleteLines, 1, FirstBadCompleteLine)))
        /\ reader'[1].cancelled
        /\ ~reader'[1].locked
        /\ home'.appState = "error"
        /\ IsSome(home'.error)
        /\ ~home'.isSearchingRef ]_vars

\* a run that dispatched the malformed line, stopped there although a data
\* line follows it, and ended in error
C2_Witness ==
  /\ loop[1].pc = "ended"
  /\ BadCompleteLines # {}
  /\ hist.log = PayloadsOf(SubSeq(CompleteLines, 1, FirstBadCompleteLine))
  /\ \E j \in DOMAIN StreamLines :
       j > FirstBadCompleteLine /\ startsWithData(StreamLines[j])
  /\ home.appState = "error"
  /\ ~home.isSearchingRef

\* C3: an unterminated last fragment buffered at end-of-stream is handed to the
\* dispatcher as a last line, and its failing to parse is tolerated: the run
\* does not end in error because of it.
C3_TrailingFragmentTolerated ==
  [][ ( /\ RunEnds
        /\ IsBadLine(TrailingFragment)
        /\ BadCompleteLines = {}
        /\ ~HasLocationErrorLine ) =>
        /\ hist'.log # <<>>
        /\ Last(hist'.log) = slice6(TrailingFragment)
        /\ home'.appState # "error" ]_vars

\* C4: once done, auth_error or location_error has been dispatched, no later
\* event of the stream changes appState, the counts, listings or
\* filteredOutListings.
C4_TerminalIsFinal == ~hist.changedAfterTerminal

\* a step of the read loop that dispatched exactly one payload
OneDispatched ==
  /\ Len(hist'.log) = Len(hist.log) + 1
  /\ Front(hist'.log) = hist.log

DispatchedData ==
  IF JSONValid(Last(hist'.log)) THEN JSONParse(Last(hist'.log)) ELSE Blank

IsDoneData(data) == data.type = "done" /\ IsSome(data.listings)

\* new is old, or old with one element appended
AppendedOnly(old, new) ==
  Len(new) \in {Len(old), Len(old) + 1} /\ IsPrefix(old, new)

DoneReplaces(data) ==
  /\ home'.listings = data.listings[1]
  /\ home'.filteredOutListings = OrElse(data.filteredOutListings, <<>>)
  /\ home'.appState = "done"

\* C5 as amended: a done event with a listings array makes listings exactly
\* done.listings, filteredOutListings exactly done.filteredOutListings (empty
\* when absent) and appState done, whatever preceded it; no other event kind
\* replaces listings, and filteredOutListings is otherwise only appended to,
\* except that auth_error and location_error empty it.
C5_DoneReplacesCollections ==
  [][ OneDispatched =>
        LET data == DispatchedData
        IN  IF IsDoneData(data) THEN DoneReplaces(data)
            ELSE /\ AppendedOnly(home.listings, home'.listings)
                 /\ \/ AppendedOnly(home.filteredOutListings,
                                    home'.filteredOutListings)
                    \/ /\ data.type \in {"auth_error", "location_error"}
                       /\ home'.filteredOutListings = <<>> ]_vars

\* C5 as stated: ... and no other event kind replaces a listing collection
\* wholesale.
C5_OnlyDoneReplaces ==
  [][ OneDispatched =>
        LET data == DispatchedData
        IN  IF IsDoneData(data) THEN DoneReplaces(data)
            ELSE /\ AppendedOnly(home.listings, home'.listings)
                 /\ AppendedOnly(home.filteredOutListings,
                                 home'.filteredOutListings) ]_vars

\* a done event dispatched after a listing_result and a
\* filtered_facebook_listing that it overrides
C5_Witness ==
  /\ hist.log = <<Json(<<"r">>), Json(<<"f">>), Json(<<"D">>)>>
  /\ home.listings = <<ListingA2>>
  /\ home.filteredOutListings = <<FilteredB>>
  /\ home.appState = "done"

\* C6 as amended: after phase{scraping}, progress{5}, listing_result{a, 1} and
\* a done event that carries only listings: [a], the final state is done with
\* listings = [a] and evaluatedCount = 0, the count the done event defaults to.
C6_ScenarioA ==
  [][ (RunEnds /\ response = ScenarioA) =>
        /\ home'.appState = "done"
        /\ home'.listings = <<ListingA>>
        /\ home'.evaluatedCount = 0 ]_vars

\* C6 as stated: ... the final state is done with evaluatedCount = 1 and
\* listings = [a].
C6_ScenarioA_Stated ==
  [][ (RunEnds /\ response = ScenarioA) =>
        /\ home'.appState = "done"
        /\ home'.listings = <<ListingA>>
        /\ home'.evaluatedCount = 1 ]_vars

C6_Witness ==
  /\ response = ScenarioA
  /\ loop[1].pc = "ended"
  /\ Len(hist.log) = 4
  /\ home.appState = "done"
  /\ home.listings = <<ListingA>>
  /\ home.evaluatedCount = 0

LogTypes == {JSONParse(hist.log[i]).type : i \in DOMAIN hist.log}

\* C7: after any sequence of listing_result, filtered_facebook_listing and done
\* events, no url is in both listings and filteredOutListings.
C7_EvaluatedFilteredDisjoint ==
  LogTypes \subseteq {"listing_result", "filtered_facebook_listing", "done"} =>
    UrlSet(home.listings) \cap UrlSet(home.filteredOutListings) = {}

\* C8: after filtered_facebook_listing{a} followed by listing_result{a}, a is in
\* the evaluated collection and no longer in the filtered-out collection.
C8_ScenarioE ==
  (loop[1].pc = "ended" /\ response = ScenarioE) =>
    /\ "a" \in UrlSet(home.listings)
    /\ "a" \notin UrlSet(home.filteredOutListings)

\* C9: while the loading view is shown, its pending rows are the seen listings
\* whose url is in neither listings nor filteredOutListings, in the order seen,
\* computed from the collections as they are now.
C9_PendingView ==
  home.appState = "loading" =>
    /\ view.mounted
    /\ LET seen    == home.debugFacebookListings
           taken   == UrlSet(home.listings) \cup UrlSet(home.filteredOutListings)
           keep    == {i \in DOMAIN seen : seen[i].url \notin taken}
           pending == view.allFacebookListingsAsListings
       IN  /\ Len(pending) = Cardinality(keep)
           /\ \A i \in keep :
                LET j == Cardinality({k \in keep : k <= i})
                IN  pending[j].url = seen[i].url /\ pending[j].title = seen[i].title
           /\ \A j \in DOMAIN pending : pending[j].url \notin taken

\* two listings seen, a evaluated since: only b is pending
C9_Witness ==
  /\ home.appState = "loading"
  /\ Len(home.debugFacebookListings) = 2
  /\ UrlSet(home.listings) = {"a"}
  /\ home.filteredOutListings = <<>>
  /\ Len(view.allFacebookListingsAsListings) = 1
  /\ view.allFacebookListingsAsListings[1].url = "b"

\* C10: in the combined display list of the loading view every url appears at
\* most once.
C10_DisplayListNoDuplicates ==
  view.mounted =>
    \A i, j \in DOMAIN view.displayListings :
      i # j => view.displayListings[i].url # view.displayListings[j].url

\* the runs whose parseSSEStream loop was started and has not terminated
ActiveLoops == {i \in Runs : loop[i].pc = "read"}

\* C11: at every moment at most one parseSSEStream read loop is active: a new
\* loop never starts while one started before has not terminated.
C11_OneLoopAtATime == Cardinality(ActiveLoops) <= 1

\* the step in which onSubmit runs
SubmitStep == tasks'.submits < tasks.submits

\* C12: a submission made while isSearchingRef is true is rejected: onSubmit
\* returns without issuing a request, without creating an abort controller or
\* a reader, and without changing any state of the session.
C12_GuardedSubmitRejected ==
  [][ (SubmitStep /\ home.isSearchingRef) =>
        UNCHANGED <<home, reader, controller, loop, view>> ]_vars

\* a second submission was refused while the first run goes on
C12_Witness ==
  /\ hist.refused = 1
  /\ home.isSearchingRef
  /\ Started = {1}
  /\ loop[1].pc = "fetch"

\* the step in which cancelSearch, its POST settled, stops the reader, aborts
\* the request and resets the state
CancelStep == tasks'.cancels < tasks.cancels

\* C13: cancelSearch invoked after a search has started and before a terminal
\* event was dispatched, at whatever point the run is suspended, ends with
\* appState = form, error = null and the guard cleared; appState does not
\* become error because of the cancellation.
C13_CancelReturnsToForm ==
  [][ (CancelStep /\ ~hist.terminalSeen) =>
        /\ home'.appState = "form"
        /\ home'.error = None
        /\ ~home'.isSearchingRef ]_vars

\* C14: once cancelSearch has been invoked, no stream event dispatched
\* afterwards changes the state of the session, neither one that arrives while
\* the cancel waits on the producer notification nor a line left in the buffer
\* when the reader is cancelled.
C14_NoChangeAfterCancel == ~hist.changedAfterCancel

CancelLogLines ==
  Cardinality({i \in DOMAIN home.debugLogs :
                 home.debugLogs[i] = "Search cancelled by user"})

\* C15: however often cancelSearch is invoked for a search, the producer
\* notification is sent, the request aborted and the cancellation log line
\* appended at most once.
C15_CancelEffectsOnce ==
  /\ hist.notifications <= 1
  /\ hist.aborts <= 1
  /\ CancelLogLines <= 1

\* C16: once cancelSearch has been invoked, the search is eventually stopped
\* and the state reset to form (no reader, no controller, guard clear),
\* whatever becomes of the POST /api/search/cancel notification.
C16_CancelEventuallyResets ==
  (tasks.cancels > 0) ~>
     /\ home.appState = "form"
     /\ home.readerRef = None
     /\ home.abortControllerRef = None
     /\ ~home.isSearchingRef

\* C17: when cancelSearch runs while a read loop is suspended in
\* reader.read(), that read is settled and the loop terminates within the
\* same step: the run is over and the lock on its reader is released.
C17_CancelEndsSuspendedLoop ==
  [][ CancelStep =>
        \A i \in Runs :
          loop[i].pc = "read" =>
            /\ loop'[i].pc = "ended"
            /\ ~reader'[i].locked ]_vars

NoSearchActive ==
  /\ home.readerRef = None
  /\ home.abortControllerRef = None
  /\ ~home.isSearchingRef

\* C18: cancelSearch invoked while no search is active (no reader, no
\* controller, guard false) and no earlier call is under way sends no
\* producer notification and leaves the session state as it was.
C18_CancelWithoutSearchIsNoOp ==
  [][ (NoSearchActive /\ tasks.cancels = 0 /\ tasks'.cancels = 1) =>
        /\ hist'.notifications = hist.notifications
        /\ home' = home ]_vars

RunFinishes(i) == loop[i].pc # "ended" /\ loop'[i].pc = "ended"

\* C19: whenever a search run finishes, whatever ended it (HTTP status,
\* missing body, transport error, JSON decode error, auth_error,
\* location_error, abort, or the end of the stream), isSearchingRef is false
\* afterwards.
C19_GuardClearedWhenRunEnds ==
  [][ \A i \in Runs : RunFinishes(i) => ~home'.isSearchingRef ]_vars

C19_Witness ==
  /\ loop[1].pc = "ended"
  /\ loop[1].thrown = Some("HTTP error")
  /\ loop[2].pc = "fetch"
  /\ home.isSearchingRef
  /\ home.appState = "loading"

TransportErrors == {Some(e) : e \in FetchErrors \cup {"network error"}}

\* C20: a run ended by a fetch rejection, an HTTP status, a missing body or a
\* read error leaves appState = error with that error as the message, and a
\* step of cancelSearch never leaves appState = error.
C20_FailureDistinctFromCancel ==
  [][ /\ \A i \in Runs :
           (RunFinishes(i) /\ loop'[i].thrown \in TransportErrors) =>
             /\ home'.appState = "error"
             /\ home'.error = loop'[i].thrown
      /\ CancelStep => home'.appState # "error" ]_vars

\* the last payload handed to dispatchSSEEvent
LastDispatched == IF hist'.log = <<>> THEN Blank ELSE DispatchedData

CountsReset(h) ==
  h.scannedCount = 0 /\ h.filteredCount = 0 /\ h.evaluatedCount = 0

\* C21: a run whose last dispatched event is a location_error ends on the
\* location recovery screen: appState = form, error = the event's message,
\* the counts 0; it does not end with appState = error.
C21_LocationErrorEndsOnForm ==
  [][ (RunEnds /\ LastDispatched.type = "location_error") =>
        /\ home'.appState = "form"
        /\ home'.error = LastDispatched.message
        /\ CountsReset(home') ]_vars

\* C22: a step of the read loop whose last dispatched event is an auth_error,
\* and the end of a run whose last dispatched event is one, leave the
\* re-authentication screen: appState = setup with the session-expired
\* message, the counts 0 and the guard clear; appState is not error.
C22_AuthErrorEndsOnSetup ==
  [][ ((hist'.log # hist.log \/ RunEnds) /\ LastDispatched.type = "auth_error") =>
        /\ home'.appState = "setup"
        /\ home'.error = Some(SessionExpired)
        /\ CountsReset(home')
        /\ ~home'.isSearchingRef ]_vars

\* the fields the wire table requires of each kind
RequiredFields(type) ==
  CASE type = "phase" -> {"phase"}
    [] type = "progress" -> {"scannedCount"}
    [] type = "filtered_facebook_listing" -> {"listing"}
    [] type = "current_item" -> {"listingIndex", "fbTitle", "totalListings"}
    [] type = "listing_result" -> {"listing", "evaluatedCount"}
    [] type = "listing_processed" -> {"evaluatedCount"}
    [] type = "done" -> {"listings"}
    [] type = "location_error" -> {"message"}
    [] OTHER -> {}

LacksRequired(data) == \E f \in RequiredFields(data.type) : data[f] = None

\* C23: an event of a recognized kind that lacks a required field changes no
\* state and raises no error, and the loop goes on to the next read.
C23_DefectiveEventDropped ==
  [][ (OneDispatched /\ LacksRequired(DispatchedData)) =>
        /\ home' = home
        /\ loop'[1].pc = "read"
        /\ loop'[1].thrown = None ]_vars

\* the one payload dispatched in this step parsed
OneParsed == OneDispatched /\ JSONValid(Last(hist'.log))

\* C24: an event whose type is not one of the recognized kinds changes no
\* state and raises no error, and the loop goes on to the next read.
C24_UnknownKindIgnored ==
  [][ ( /\ OneParsed
        /\ DispatchedData.type # ""
        /\ DispatchedData.type \notin RecognizedKinds ) =>
          /\ home' = home
          /\ loop'[1].pc = "read"
          /\ loop'[1].thrown = None ]_vars

\* an event of an unknown kind was dispatched, and the progress event on the
\* next line after it
C24_Witness ==
  /\ hist.log = <<Json(<<"h">>), Json(<<"p">>)>>
  /\ home.scannedCount = 5
  /\ home.appState = "loading"

\* C25: a payload that is valid JSON but carries no type is a decode failure:
\* it ends the run as invalid JSON does, with the stream torn down and
\* appState = error with a message.
C25_TypelessPayloadAborts ==
  [][ (OneParsed /\ DispatchedData.type = "") =>
        /\ loop'[1].pc = "ended"
        /\ ~reader'[1].locked
        /\ home'.appState = "error"
        /\ IsSome(home'.error) ]_vars

\* C26: the payloads are dispatched in the order of their lines in the
\* stream, within a chunk and across chunk boundaries: what was dispatched so
\* far is a prefix of the stream's payloads, so none came before an earlier
\* one and none came twice.
C26_DispatchInLineOrder == IsPrefix(hist.log, PayloadsOf(StreamLines))

\* the first line was dispatched and the chunk ended inside the second
C26_Witness ==
  /\ Len(PayloadsOf(StreamLines)) = 2
  /\ PayloadsOf(StreamLines)[1] # PayloadsOf(StreamLines)[2]
  /\ hist.log = <<PayloadsOf(StreamLines)[1]>>
  /\ loop[1].pc = "read"
  /\ loop[1].buffer = <<"d", "a", "t">>

\* C27: an accepted submission starts from empty collections and zero
\* counts, and until the next one no event of an earlier run's stream changes
\* the collections or the counts.
C27_RunIsolated ==
  [][ /\ (SubmitStep /\ ~home.isSearchingRef) =>
           Collected(home') = Collected(HomeInit)
      /\ ~hist'.changedByEarlierRun ]_vars

\* C28: a filtered event that carries a numeric filteredCount sets
\* filteredCount to that value and changes nothing else.
C28_FilteredSetsCount ==
  [][ ( /\ OneParsed
        /\ DispatchedData.type = "filtered"
        /\ IsSome(DispatchedData.filteredCount) ) =>
        home' = [home EXCEPT !.filteredCount = DispatchedData.filteredCount[1]] ]_vars

\* the timestamps of a telemetry entry that are set are those of the entry
\* it was before
TimesKept(old, new) ==
  /\ new.fbListingId = old.fbListingId
  /\ new.startedAtMs = old.startedAtMs
  /\ IsSome(old.queryGeneratedAtMs) => new.queryGeneratedAtMs = old.queryGeneratedAtMs
  /\ IsSome(old.finishedAtMs) => new.finishedAtMs = old.finishedAtMs

\* C29: whatever events of the timeline are dispatched, in any order, every
\* telemetry entry keeps the startedAtMs, queryGeneratedAtMs and finishedAtMs
\* it already had; a _generated event applied a second time leaves
\* queryGeneratedAtMs as the first application set it
C29_TimestampsSetOnce ==
  [][ hist'.log # hist.log =>
        \A k \in DOMAIN home.debugEbayQueries :
          /\ k \in DOMAIN home'.debugEbayQueries
          /\ TimesKept(home.debugEbayQueries[k], home'.debugEbayQueries[k]) ]_vars

\* the same _generated event was applied as first and again as third event,
\* after the entry was finished by the second
C29_Witness ==
  /\ hist.log = <<Json(<<"2">>), Json(<<"3">>), Json(<<"2">>)>>
  /\ Len(home.debugEbayQueries) = 1
  /\ home.debugEbayQueries[1].startedAtMs = EventGapMs
  /\ home.debugEbayQueries[1].queryGeneratedAtMs = Some(EventGapMs)
  /\ home.debugEbayQueries[1].finishedAtMs = Some(2 * EventGapMs)

TelemetryKinds ==
  {"debug_ebay_query_start", "debug_ebay_query_generated",
   "debug_ebay_query_finished", "debug_product_recon"}

\* the entries of a listing id
EntriesOf(h, id) ==
  {k \in DOMAIN h.debugEbayQueries : h.debugEbayQueries[k].fbListingId = id}

\* the entry carries what the event brought
Merged(data, e) ==
  CASE data.type = "debug_ebay_query_start" -> e.fbTitle = data.fbTitle[1]
    [] data.type = "debug_ebay_query_generated" -> e.ebayQuery = data.ebayQuery
    [] data.type = "debug_ebay_query_finished" -> e.failed = data.failed
    [] data.type = "debug_product_recon" ->
         /\ IsSome(e.productRecon)
         /\ e.productRecon[1].canonical_name = data.recon[1].canonical_name[1]

\* C30: a telemetry event for an id without an entry leaves exactly one entry
\* of that id, and one for an id with an entry leaves its fields in that entry
C30_TelemetryCreatesOrMerges ==
  [][ (OneParsed /\ DispatchedData.type \in TelemetryKinds) =>
        \E id \in {DispatchedData.fbListingId[1]} :
          IF EntriesOf(home, id) = {}
          THEN Cardinality(EntriesOf(home', id)) = 1
          ELSE /\ EntriesOf(home', id) = EntriesOf(home, id)
               /\ \A k \in EntriesOf(home', id) :
                    Merged(DispatchedData, home'.debugEbayQueries[k]) ]_vars

\* C31: a telemetry event (start, generated, finished, recon) for an id whose
\* entry has finishedAtMs set leaves every field of that entry as it was
C31_FinishedEntryIsTerminal ==
  [][ (OneParsed /\ DispatchedData.type \in TelemetryKinds) =>
        \A k \in EntriesOf(home, DispatchedData.fbListingId[1]) :
          IsSome(home.debugEbayQueries[k].finishedAtMs) =>
            /\ k \in DOMAIN home'.debugEbayQueries
            /\ home'.debugEbayQueries[k] = home.debugEbayQueries[k] ]_vars

\* the interval timer fired in this step
TickStep ==
  /\ view.mounted /\ view'.mounted
  /\ view'.nowMs # view.nowMs /\ hist' = hist

\* the tenths of a second a formatted time stands for
TenthsOf(f) == 600 * f.minutes + 10 * f.seconds + f.tenths

\* a formatted time is a time: minutes, seconds below 60 and one digit of tenths
WellFormed(f) ==
  f.minutes >= 0 /\ f.seconds \in 0..59 /\ f.tenths \in 0..9

\* a tick stores no timestamp, and leaves the time shown for a finished entry
TickKeeps ==
  TickStep =>
    /\ home' = home
    /\ \A k \in DOMAIN home.debugEbayQueries :
         IsSome(home.debugEbayQueries[k].finishedAtMs) =>
           /\ EbayQueryCell(home'.debugEbayQueries[k], view'.nowMs)
                = EbayQueryCell(home.debugEbayQueries[k], view.nowMs)
           /\ itemElapsedFormatted(Some(home'.debugEbayQueries[k]), view'.nowMs, FALSE)
                = itemElapsedFormatted(Some(home.debugEbayQueries[k]), view.nowMs, FALSE)

\* C32 as stated: for every entry and every tick value the time shown is that
\* of (finishedAtMs ?? nowMs) - startedAtMs, which is never negative; a tick
\* changes no stored timestamp and no time shown for a finished entry
C32_ElapsedIsDifference ==
  [][ /\ view'.mounted =>
           \A k \in DOMAIN home'.debugEbayQueries :
             \E e \in {home'.debugEbayQueries[k]} :
               /\ elapsedMs(e, view'.nowMs) >= 0
               /\ TenthsOf(EbayQueryCell(e, view'.nowMs))
                    = elapsedMs(e, view'.nowMs) \div 100
               /\ itemElapsedFormatted(Some(e), view'.nowMs, FALSE)
                    = Some(EbayQueryCell(e, view'.nowMs))
      /\ TickKeeps ]_vars

\* C32 amended: the time shown is that of the difference when it is not
\* negative; for a negative difference (an entry started after the last tick)
\* the debug panel shows 0:00.0 and the row of the table shows no time; the
\* time shown is never negative, and a tick changes no stored timestamp and
\* no time shown for a finished entry
C32_ElapsedClamped ==
  [][ /\ view'.mounted =>
           \A k \in DOMAIN home'.debugEbayQueries :
             \E e \in {home'.debugEbayQueries[k]} :
               /\ WellFormed(EbayQueryCell(e, view'.nowMs))
               /\ IF elapsedMs(e, view'.nowMs) >= 0
                  THEN /\ TenthsOf(EbayQueryCell(e, view'.nowMs))
                            = elapsedMs(e, view'.nowMs) \div 100
                       /\ itemElapsedFormatted(Some(e), view'.nowMs, FALSE)
                            = Some(EbayQueryCell(e, view'.nowMs))
                  ELSE /\ TenthsOf(EbayQueryCell(e, view'.nowMs)) = 0
                       /\ itemElapsedFormatted(Some(e), view'.nowMs, FALSE) = None
      /\ TickKeeps ]_vars

\* the entry started by the first event and finished by the second, shown
\* at a tick later than the second event
C32_Witness ==
  /\ view.mounted /\ view.nowMs > 2 * EventGapMs
  /\ Len(home.debugEbayQueries) = 1
  /\ home.debugEbayQueries[1].startedAtMs = EventGapMs
  /\ home.debugEbayQueries[1].finishedAtMs = Some(2 * EventGapMs)

\* the rows ResultsTable receives from the loading view, and their order on
\* screen
RowsIn == view.displayListings
RowUrls == UrlSet(home.filteredOutListings)
RowsOut == sortedDisplayListings(RowsIn, RowUrls)

\* a listing without a score that was filtered before evaluation or has no
\* comparable price and no eBay query
IsFilteredRow(l) ==
  /\ l.dealScore = None
  /\ \/ l.url \in RowUrls
     \/ /\ IsSome(l.noCompReason) /\ l.noCompReason[1] # ""
        /\ ~(IsSome(l.ebaySearchQuery) /\ l.ebaySearchQuery[1] \notin {"", " "})

\* how many times l occurs in s
Occurrences(s, l) == Cardinality({i \in DOMAIN s : s[i] = l})

\* C33: in the order of the table every non-filtered listing precedes every
\* filtered one, the non-filtered listings keep their order, and the rows are
\* a permutation of the list received
C33_NonFilteredFirst ==
  view.mounted =>
    \E out \in {RowsOut} :
      /\ \A i, j \in DOMAIN out :
           (IsFilteredRow(out[i]) /\ ~IsFilteredRow(out[j])) => j < i
      /\ SelectSeq(out, LAMBDA l : ~IsFilteredRow(l))
           = SelectSeq(RowsIn, LAMBDA l : ~IsFilteredRow(l))
      /\ Len(out) = Len(RowsIn)
      /\ \A i \in DOMAIN RowsIn :
           Occurrences(out, RowsIn[i]) = Occurrences(RowsIn, RowsIn[i])

\* a listing without comparables arrived before two scored ones, and a
\* listing was filtered before evaluation
C33_Witness ==
  /\ view.mounted /\ Len(RowsIn) = 4
  /\ IsFilteredRow(RowsIn[1]) /\ ~IsFilteredRow(RowsIn[2])
  /\ ~IsFilteredRow(RowsIn[3]) /\ RowsIn[2] # RowsIn[3]
  /\ IsFilteredRow(RowsIn[4])

\* the filtered rows in the order of the table, each with the index it had in
\* the list received
FilteredOut == sortByRecency(filteredEntries(RowsIn, RowUrls))

\* filtered before evaluation: the listing is in filteredOutListings
IsPreEval(f) == f.listing.url \in RowUrls

\* C34: among the filtered rows every listing filtered after evaluation is
\* above every listing filtered before evaluation, and each of the two
\* groups is in descending order of input index
C34_PostEvalAbovePreEval ==
  view.mounted =>
    \E out \in {RowsOut}, fs \in {FilteredOut} :
      /\ \A i \in DOMAIN fs :
           /\ fs[i].listing = RowsIn[fs[i].idx + 1]
           /\ out[Len(out) - Len(fs) + i] = fs[i].listing
      /\ \A i, j \in DOMAIN fs :
           i < j =>
             /\ ~(IsPreEval(fs[i]) /\ ~IsPreEval(fs[j]))
             /\ (IsPreEval(fs[i]) = IsPreEval(fs[j])) => fs[i].idx > fs[j].idx

\* two listings filtered after evaluation arrived between two rows filtered
\* before evaluation
C34_Witness ==
  /\ view.mounted /\ Len(RowsIn) = 4
  /\ RowsIn[1].url \in RowUrls /\ RowsIn[2].url \notin RowUrls
  /\ RowsIn[3].url \notin RowUrls /\ RowsIn[4].url \in RowUrls
  /\ \E fs \in {FilteredOut} :
       /\ Len(fs) = 4
       /\ fs[1].idx = 2 /\ fs[2].idx = 1 /\ fs[3].idx = 3 /\ fs[4].idx = 0

\* C35: once a run has ended, by the end of its stream or by a failure, and
\* none is under way, the app has left the loading screen: it is never in
\* appState loading with the guard cleared and no read loop active
C35_LeavesLoading ==
  ( /\ \E i \in Runs : loop[i].pc = "ended"
    /\ \A i \in Runs : loop[i].pc \in {"idle", "ended"}
    /\ ~home.isSearchingRef )
  => home.appState \in {"done", "error", "form", "setup"}

\* a cancelSearch call resumes after its await
CancelResumes == tasks'.cancels < tasks.cancels

\* C36: a cancelSearch call that resumes tears down only the run it was
\* called in: a run started since then keeps its reader and its abort
\* controller as they were, and the app is not reset to the form
C36_CancelTearsDownOwnRun ==
  [][ CancelResumes =>
        \A j \in Runs :
          (j > Last(hist.cancelRuns) /\ loop[j].pc # "idle") =>
            /\ reader'[j] = reader[j]
            /\ controller'[j] = controller[j]
            /\ home'.appState = "form" => home.appState = "form" ]_vars

\* C37: while the read loop of a run is active the guard is set and readerRef
\* and abortControllerRef hold the reader and the controller of that run
C37_RefsHeldWhileReading ==
  \A i \in Runs :
    loop[i].pc = "read" =>
      /\ home.isSearchingRef
      /\ home.readerRef = Some(i)
      /\ home.abortControllerRef = Some(i)

\* C38: debugEbayQueries never holds two entries of the same fbListingId
C38_OneEntryPerListing ==
  \A i, j \in DOMAIN home.debugEbayQueries :
    home.debugEbayQueries[i].fbListingId = home.debugEbayQueries[j].fbListingId
      => i = j

\* the telemetry of two listings, the first of which had two events
C38_Witness ==
  /\ Len(home.debugEbayQueries) = 2
  /\ Len(hist.log) = 3
  /\ home.debugEbayQueries[1].fbListingId = "a"
  /\ IsSome(home.debugEbayQueries[1].productRecon)
  /\ IsSome(home.debugEbayQueries[1].ebayQuery)
  /\ home.debugEbayQueries[2].fbListingId = "b"

====
